---- MODULE Spec2Model ----
(* Verification model of the f1-2025 prediction game:                      *)
(*   src/src/game/distance.py   calc_distance (the rank-distance metric)   *)
(*   src/src/game/dbops.py      DBOperations (ledger and score queries)    *)
(* A float is modelled exactly, as the fraction [num, den] the code        *)
(* divides; None is the record with defined = FALSE.                       *)
EXTENDS Integers, Sequences, FiniteSets, TLC

\* ------------------------------------------------------------------ bounds
MaxLen == 3          \* longest predicted / actual list given to calc_distance
MaxClock == 3        \* last tick of the clock (two ticks a day)
MaxResults == 2      \* most Result rows the store is filled with
MaxPosition == 2     \* largest finishing position of a ResultModel request

\* names given to calc_distance
Names == {"A", "B", "C", "D"}

VARIABLES
    predicted_drivers,  \* calc_distance: first argument
    point_scorers,      \* calc_distance: second argument
    distance,           \* calc_distance: returned value
    pc,                 \* "call" before calc_distance has run, "done" after
    predictions,        \* table prediction: rows [user, race, driver, position]
    results,            \* table result: rows [race, driver, constructor, position, points]
    clock,              \* datetime.now(tz=UTC), in half days
    last,               \* the last request served and its RequestResponse
    sessions            \* per worker thread: the request it is serving

call == <<predicted_drivers, point_scorers, distance, pc>>
store == <<predictions, results>>
vars == <<predicted_drivers, point_scorers, distance, pc, predictions, results, clock, last,
          sessions>>

\* ------------------------------------------------------------ plain values
None == [defined |-> FALSE, num |-> 0, den |-> 1]

Float(n, d) == [defined |-> TRUE, num |-> n, den |-> d]

abs(x) == IF x < 0 THEN -x ELSE x

max(a, b) == IF a >= b THEN a ELSE b

SeqsUpTo(S, n) == UNION {[1..m -> S] : m \in 0..n}

\* mutant of Prefix: the slice is dropped, the whole list is searched
Prefix_whole(list, n) == list

\* mutant of Prefix: the slice is two entries too long, list[:n + 2]
Prefix_plus(list, n) ==
    SubSeq(list, 1, IF Len(list) < n + 2 THEN Len(list) ELSE n + 2)

\* list[:n]
Prefix(list, n) == SubSeq(list, 1, IF Len(list) < n THEN Len(list) ELSE n)

\* mutant of index: positions counted from 1
RECURSIVE index_one_based(_, _, _, _)
index_one_based(list, name, from, missing) ==
    IF from > Len(list) THEN missing
    ELSE IF list[from] = name THEN from
    ELSE index_one_based(list, name, from + 1, missing)

\* list.index(name), 0-based; the except branch of the caller gives `missing`
RECURSIVE index(_, _, _, _)
index(list, name, from, missing) ==
    IF from > Len(list) THEN missing
    ELSE IF list[from] = name THEN from - 1
    ELSE index(list, name, from + 1, missing)

\* mutant of normalizer: the superseded n(n+1)/2 form
normalizer_triangular(n, k) == (n * (n + 1)) \div 2

\* mutant of normalizer: max(k, n - 1 - k), the largest displacement when
\* every name is present
RECURSIVE normalizer_present(_, _)
normalizer_present(n, k) ==
    IF k >= n THEN 0 ELSE max(k, n - 1 - k) + normalizer_present(n, k + 1)

\* sum(max(k, n - k) for k in range(n))
RECURSIVE normalizer(_, _)
normalizer(n, k) ==
    IF k >= n THEN 0 ELSE max(k, n - k) + normalizer(n, k + 1)

\* mutant of displacement: abs() dropped
RECURSIVE displacement_signed(_, _, _)
displacement_signed(predicted, scorers, ix) ==
    IF ix >= Len(scorers) THEN 0
    ELSE (ix - index(predicted, scorers[ix + 1], 1, Len(scorers)))
             + displacement_signed(predicted, scorers, ix + 1)

\* the for loop of calc_distance: ix is the 0-based position in point_scorers
RECURSIVE displacement(_, _, _)
displacement(predicted, scorers, ix) ==
    IF ix >= Len(scorers) THEN 0
    ELSE abs(ix - index(predicted, scorers[ix + 1], 1, Len(scorers)))
             + displacement(predicted, scorers, ix + 1)

calc_distance(predicted, scorers) ==
    IF scorers = <<>> THEN None
    ELSE LET n == Len(scorers)
         IN  Float(displacement(Prefix(predicted, n), scorers, 0), normalizer(n, 0))

\* ------------------------------------------------------------ the database
\* Reference data, created once by the create_* endpoints.  entities.py names
\* the Result column `point` and the Race column `date`; dbops.py reads and
\* writes `points`, `race_date` and `prediction_deadline`: the model follows
\* dbops.py.  Prediction.prediction_time_utc is written and never read, and
\* is left out of the rows.
Users == {"u1", "u2"}

\* username -> the password whose salted hash is stored
Password == [u \in Users |-> IF u = "u1" THEN "password1" ELSE "password2"]

Races == {"r1", "r2"}

\* Race.race_date, in days
RaceDate == [r \in Races |-> IF r = "r1" THEN 2 ELSE 3]

Drivers == {"A", "B"}

Constructors == {"K1", "K2"}

\* Race.prediction_deadline
prediction_deadline(race) == RaceDate[race] - 2

\* datetime.date(): the calendar day of a time given in half days
date(time) == time \div 2

\* mutant of is_password_valid: every password verifies
is_password_valid_any(password, username) == TRUE

\* is_password_valid(password, stored_password=user_entity.password)
is_password_valid(password, username) == password = Password[username]

\* ---------------------------------------------------------------- requests
UserNames == Users \cup {"ghost"}

Passwords == {Password[u] : u \in Users}

RaceNames == Races \cup {"r0"}

DriverNames == Drivers \cup {"X"}

ConstructorNames == Constructors \cup {"K0"}

Positions == 1..MaxPosition

PointValues == {0, 25}

\* driver lists submitted to the ledger
DriverLists ==
    {<<>>, <<"A">>, <<"B">>, <<"A", "B">>, <<"B", "A">>, <<"A", "A">>, <<"A", "X">>}

PredictionModel ==
    [username : UserNames, password : Passwords, race_name : RaceNames,
     drivers : DriverLists]

DeletePredictionModel ==
    [username : UserNames, password : Passwords, race_name : RaceNames]

ResultModel ==
    [race_name : RaceNames, driver : DriverNames, constructor : ConstructorNames,
     position : Positions, points : PointValues]

\* RequestResponse with the request it answers
Response(op, race, status, reason) ==
    [op |-> op, race |-> race, status |-> status, reason |-> reason]

NoRequest == Response("none", "-", "-", "-")

\* worker threads of the server
Threads == {"t1", "t2"}

\* what a thread holds: the request (op and req), the phase "idle", "pending"
\* (checks passed, transaction not yet committed) or "done" (response ready),
\* and the status and reason of the response
Session(phase, op, req, status, reason) ==
    [phase |-> phase, op |-> op, req |-> req, status |-> status, reason |-> reason]

NoPrediction == [username |-> "-", password |-> "-", race_name |-> "-", drivers |-> <<>>]

Idle == Session("idle", "-", NoPrediction, "-", "-")

\* PredictionModel.check_if_driver_list_is_unique
check_if_driver_list_is_unique(drivers) ==
    Cardinality({drivers[i] : i \in 1..Len(drivers)}) = Len(drivers)

\* the Prediction entities built by the loop of make_prediction
prediction_entities(req) ==
    {[user |-> req.username, race |-> req.race_name,
      driver |-> req.drivers[ix], position |-> ix] : ix \in 1..Len(req.drivers)}

\* UniqueConstraint("user_id", "race_id", "driver_id") of Prediction
PredictionConflict(rows, new) ==
    \E p \in rows, q \in new :
        p.user = q.user /\ p.race = q.race /\ p.driver = q.driver

\* mutant of deadline_passed: the deadline day itself is refused
deadline_passed_inclusive(time, race) == date(time) >= prediction_deadline(race)

\* prediction_time.date() > race_entity.prediction_deadline
deadline_passed(time, race) == date(time) > prediction_deadline(race)

\* the checks of make_prediction that precede the insert: the reason of the
\* failure, "-" when the entities are built
prediction_checks(req) ==
    IF ~check_if_driver_list_is_unique(req.drivers) THEN "validation"
    ELSE IF req.username \notin Users THEN "user"
    ELSE IF ~is_password_valid(req.password, req.username) THEN "auth"
    ELSE IF req.race_name \notin Races THEN "race"
    ELSE IF deadline_passed(clock, req.race_name) THEN "deadline"
    ELSE IF \E ix \in 1..Len(req.drivers) : req.drivers[ix] \notin Drivers THEN "driver"
    ELSE "-"

\* mutant of insert_rows: every row is committed on its own, up to the first
\* one the database refuses
RECURSIVE insert_rows_each(_, _)
insert_rows_each(rows, entities) ==
    IF entities = {} THEN rows
    ELSE LET first == CHOOSE e \in entities : \A q \in entities : e.position <= q.position
         IN  IF PredictionConflict(rows, {first}) THEN rows
             ELSE insert_rows_each(rows \cup {first}, entities \ {first})

\* user_entity.predictions.extend(prediction_entities); session.commit(), and
\* session.rollback() on IntegrityError: the table after the transaction
insert_rows(rows, entities) ==
    IF PredictionConflict(rows, entities) THEN rows ELSE rows \cup entities

\* the transaction of make_prediction, once the checks have passed
commit_prediction(req) ==
    IF PredictionConflict(predictions, prediction_entities(req))
    THEN [predictions |-> insert_rows(predictions, prediction_entities(req)),
          response |-> Response("make_prediction", req.race_name, "FAILURE", "integrity")]
    ELSE [predictions |-> insert_rows(predictions, prediction_entities(req)),
          response |-> Response("make_prediction", req.race_name, "SUCCESS", "-")]

\* POST /make/prediction: request validation, then DBOperations.make_prediction;
\* the value is the table after the call and the response
make_prediction(req) ==
    LET reason == prediction_checks(req)
    IN  IF reason = "-" THEN commit_prediction(req)
        ELSE [predictions |-> predictions,
              response |-> Response("make_prediction",
                                    IF reason \in {"deadline", "driver"}
                                    THEN req.race_name ELSE "-",
                                    "FAILURE", reason)]

\* DBOperations.authenticate
authenticate(username, password) ==
    username \in Users /\ is_password_valid(password, username)

\* mutant of delete_rows: the filter on the user is dropped
delete_rows_of_race(rows, username, race) == {p \in rows : p.race # race}

\* DBOperations.delete_prediction: the table after the rows selected for
\* (username, race) are deleted and the deletion is committed
delete_rows(rows, username, race) ==
    {p \in rows : ~(p.user = username /\ p.race = race)}

\* DELETE /delete/prediction: authenticate, then DBOperations.delete_prediction
delete_prediction(req) ==
    IF ~authenticate(req.username, req.password)
    THEN [predictions |-> predictions,
          response |-> Response("delete_prediction", "-", "FAILURE", "auth")]
    ELSE [predictions |-> delete_rows(predictions, req.username, req.race_name),
          response |-> Response("delete_prediction", req.race_name, "SUCCESS", "-")]

\* mutant of ResultConflict: the primary key alone, the unique constraint on
\* the position is dropped
ResultConflict_pk(rows, new) ==
    \E r \in rows :
        /\ r.race = new.race
        /\ r.driver = new.driver
        /\ r.constructor = new.constructor

\* primary key (driver_id, constructor_id, race_id) and
\* UniqueConstraint("driver_id", "race_id", "position") of Result
ResultConflict(rows, new) ==
    \E r \in rows :
        /\ r.race = new.race
        /\ r.driver = new.driver
        /\ (r.constructor = new.constructor \/ r.position = new.position)

\* POST /add/result: DBOperations.add_result
add_result(req) ==
    LET fail(reason) ==
            [results |-> results,
             response |-> Response("add_result", "-", "FAILURE", reason)]
        race_result == [race |-> req.race_name, driver |-> req.driver,
                        constructor |-> req.constructor,
                        position |-> req.position, points |-> req.points]
    IN  IF req.race_name \notin Races THEN fail("race")
        ELSE IF req.driver \notin Drivers THEN fail("driver")
        ELSE IF req.constructor \notin Constructors THEN fail("constructor")
        ELSE IF ResultConflict(results, race_result) THEN fail("integrity")
        ELSE [results |-> results \cup {race_result},
              response |-> Response("add_result", req.race_name, "SUCCESS", "-")]

\* ------------------------------------------------- the prediction ledger
MakePrediction ==
    \E req \in PredictionModel :
        /\ predictions' = make_prediction(req).predictions
        /\ last' = make_prediction(req).response
        /\ UNCHANGED <<results, clock, call, sessions>>

DeletePrediction ==
    \E req \in DeletePredictionModel :
        /\ predictions' = delete_prediction(req).predictions
        /\ last' = delete_prediction(req).response
        /\ UNCHANGED <<results, clock, call, sessions>>

\* time passes
Tick ==
    /\ clock < MaxClock
    /\ clock' = clock + 1
    /\ last' = NoRequest
    /\ UNCHANGED <<store, call, sessions>>

Init ==
    /\ predictions = {}
    /\ results = {}
    /\ clock = 0
    /\ last = NoRequest
    /\ sessions = [t \in Threads |-> Idle]
    /\ predicted_drivers = <<>>
    /\ point_scorers = <<>>
    /\ distance = None
    /\ pc = "done"

Next == MakePrediction \/ DeletePrediction \/ Tick

Spec == Init /\ [][Next]_vars

\* --------------------------------------------------- concurrent requests
\* Every endpoint runs in a worker thread.  The checks of a request read
\* reference data only; its transaction on the prediction table commits or
\* rolls back as a whole, and other threads run between the two.  The clock
\* stands still here: the requests arrive on the first day, or on the last.
TxnPredictions ==
    [username : UserNames, password : Passwords, race_name : RaceNames,
     drivers : {<<"A", "B">>, <<"B">>, <<"B", "B">>, <<"B", "X">>}]

TxnDeletions ==
    [username : UserNames, password : Passwords, race_name : Races, drivers : {<<>>}]

\* make_prediction up to the try block
ReceivePrediction(t) ==
    /\ sessions[t] = Idle
    /\ \E req \in TxnPredictions :
        sessions' = [sessions EXCEPT ![t] =
            IF prediction_checks(req) = "-"
            THEN Session("pending", "make_prediction", req, "-", "-")
            ELSE Session("done", "make_prediction", req, "FAILURE", prediction_checks(req))]
    /\ UNCHANGED <<store, clock, last, call>>

\* the try block of make_prediction
CommitPrediction(t) ==
    /\ sessions[t].phase = "pending"
    /\ sessions[t].op = "make_prediction"
    /\ LET out == commit_prediction(sessions[t].req)
       IN  /\ predictions' = out.predictions
           /\ sessions' = [sessions EXCEPT ![t] =
                  Session("done", "make_prediction", sessions[t].req,
                          out.response.status, out.response.reason)]
    /\ UNCHANGED <<results, clock, last, call>>

\* the delete endpoint up to the call of DBOperations.delete_prediction
ReceiveDeletion(t) ==
    /\ sessions[t] = Idle
    /\ \E req \in TxnDeletions :
        sessions' = [sessions EXCEPT ![t] =
            IF authenticate(req.username, req.password)
            THEN Session("pending", "delete_prediction", req, "-", "-")
            ELSE Session("done", "delete_prediction", req, "FAILURE", "auth")]
    /\ UNCHANGED <<store, clock, last, call>>

\* DBOperations.delete_prediction and the response of the endpoint
CommitDeletion(t) ==
    /\ sessions[t].phase = "pending"
    /\ sessions[t].op = "delete_prediction"
    /\ predictions' =
           delete_rows(predictions, sessions[t].req.username, sessions[t].req.race_name)
    /\ sessions' = [sessions EXCEPT ![t] =
           Session("done", "delete_prediction", sessions[t].req, "SUCCESS", "-")]
    /\ UNCHANGED <<results, clock, last, call>>

\* the response is sent, the thread is free again
Return(t) ==
    /\ sessions[t].phase = "done"
    /\ sessions' = [sessions EXCEPT ![t] = Idle]
    /\ UNCHANGED <<store, clock, last, call>>

NextTxn ==
    \E t \in Threads :
        \/ ReceivePrediction(t)
        \/ CommitPrediction(t)
        \/ ReceiveDeletion(t)
        \/ CommitDeletion(t)
        \/ Return(t)

InitTxn ==
    /\ predictions = {}
    /\ results = {}
    /\ clock \in {0, MaxClock}
    /\ last = NoRequest
    /\ sessions = [t \in Threads |-> Idle]
    /\ predicted_drivers = <<>>
    /\ point_scorers = <<>>
    /\ distance = None
    /\ pc = "done"

SpecTxn == InitTxn /\ [][NextTxn]_vars

\* ------------------------------------------------------ recording results
\* POST /add/result, one call after the other; the table is full at
\* MaxResults rows
AddResult ==
    \E req \in ResultModel :
        /\ Cardinality(add_result(req).results) <= MaxResults
        /\ results' = add_result(req).results
        /\ last' = add_result(req).response
        /\ UNCHANGED <<predictions, clock, call, sessions>>

NextResults == AddResult

SpecResults == Init /\ [][NextResults]_vars

\* ------------------------------------------------------- score queries
\* The queries order rows by position only; rows that tie on position come
\* back in an order the database picks.  `tie` ranks the drivers and stands
\* for that pick.
TieBreaks == {f \in [Drivers -> 1..Cardinality(Drivers)] :
                 \A a, b \in Drivers : f[a] = f[b] => a = b}

\* orderings in which select(User) may return the users
UserOrders == {f \in [1..Cardinality(Users) -> Users] :
                  \A i, j \in 1..Cardinality(Users) : f[i] = f[j] => i = j}

\* driver names of rows, ORDER BY position
RECURSIVE order_by_position(_, _)
order_by_position(rows, tie) ==
    IF rows = {} THEN <<>>
    ELSE LET key(r) == r.position * (Cardinality(Drivers) + 1) + tie[r.driver]
             first == CHOOSE r \in rows : \A q \in rows : key(r) <= key(q)
         IN  <<first.driver>> \o order_by_position(rows \ {first}, tie)

\* DBOperations._retrieve_predicted_drivers
retrieve_predicted_drivers(username, race, tie) ==
    order_by_position({p \in predictions : p.user = username /\ p.race = race}, tie)

\* mutant of retrieve_point_scorers: the filter Result.points > 0.0 is dropped
retrieve_point_scorers_all(race, tie) ==
    order_by_position({r \in results : r.race = race}, tie)

\* DBOperations._retrieve_point_scorers
retrieve_point_scorers(race, tie) ==
    order_by_position({r \in results : r.race = race /\ r.points > 0}, tie)

\* mutant of calc_score: no score without a stored prediction
calc_score_needs_prediction(username, race, tie) ==
    IF race \notin Races \/ retrieve_predicted_drivers(username, race, tie) = <<>>
    THEN None
    ELSE calc_distance(retrieve_predicted_drivers(username, race, tie),
                       retrieve_point_scorers(race, tie))

\* DBOperations.calc_score
calc_score(username, race, tie) ==
    IF race \notin Races THEN None
    ELSE calc_distance(retrieve_predicted_drivers(username, race, tie),
                       retrieve_point_scorers(race, tie))

\* DBOperations.get_races: the races ORDER BY race_date
get_races ==
    CHOOSE f \in [1..Cardinality(Races) -> Races] :
        \A i, j \in 1..Cardinality(Races) : i < j => RaceDate[f[i]] < RaceDate[f[j]]

\* float addition
add(a, b) == Float(a.num * b.den + b.num * a.den, a.den * b.den)

\* float comparison a <= b
leq(a, b) == a.num * b.den <= b.num * a.den

\* the loop of calc_total_score: the scores that are not None, in race order
RECURSIVE scores_of(_, _, _)
scores_of(username, ix, tie) ==
    IF ix > Len(get_races) THEN <<>>
    ELSE LET score == calc_score(username, get_races[ix], tie)
         IN  (IF score.defined THEN <<score>> ELSE <<>>)
                 \o scores_of(username, ix + 1, tie)

\* sum(scores)
RECURSIVE sum(_)
sum(scores) ==
    IF scores = <<>> THEN Float(0, 1) ELSE add(sum(Tail(scores)), Head(scores))

\* mutant of calc_total_score: the empty list of scores is summed as well
calc_total_score_zero(username, tie) == sum(scores_of(username, 1, tie))

\* DBOperations.calc_total_score
calc_total_score(username, tie) ==
    LET scores == scores_of(username, 1, tie)
    IN  IF scores = <<>> THEN None ELSE sum(scores)

\* mutant of insert: larger scores first
RECURSIVE insert_descending(_, _)
insert_descending(entry, sorted) ==
    IF sorted = <<>> THEN <<entry>>
    ELSE IF leq(entry.score, Head(sorted).score)
         THEN <<Head(sorted)>> \o insert_descending(entry, Tail(sorted))
         ELSE <<entry>> \o sorted

\* sorted(scores, key=lambda x: x[1]): a stable insertion of entry, which
\* follows every entry of `sorted` in the unsorted list
RECURSIVE insert(_, _)
insert(entry, sorted) ==
    IF sorted = <<>> THEN <<entry>>
    ELSE IF leq(Head(sorted).score, entry.score)
         THEN <<Head(sorted)>> \o insert(entry, Tail(sorted))
         ELSE <<entry>> \o sorted

\* the sorted standings of the first ix users
RECURSIVE standings_of(_, _, _)
standings_of(users, ix, tie) ==
    IF ix = 0 THEN <<>>
    ELSE LET score == calc_total_score(users[ix], tie)
             rest == standings_of(users, ix - 1, tie)
         IN  IF score.defined
             THEN insert([username |-> users[ix], score |-> score], rest)
             ELSE rest

\* DBOperations.get_standings, users being the list _retrieve_users returns
get_standings(users, tie) == standings_of(users, Len(users), tie)

\* ------------------------------------------------------------ score keeping
\* requests of the score-keeping runs: authenticated users, known names, a
\* full and a short prediction, the first two places, a second constructor
\* for driver A in race r1
ScorePredictions ==
    {req \in [username : Users, password : Passwords, race_name : Races,
              drivers : {<<"A", "B">>, <<"B">>}] :
        req.password = Password[req.username]}

ScoreDeletions ==
    {req \in [username : Users, password : Passwords, race_name : Races] :
        req.password = Password[req.username]}

ScoreResults ==
    {req \in [race_name : Races, driver : Drivers, constructor : Constructors,
              position : {1, 2}, points : PointValues] :
        req.constructor = "K2" => (req.driver = "A" /\ req.race_name = "r1")}

SubmitPrediction ==
    \E req \in ScorePredictions :
        /\ predictions' = make_prediction(req).predictions
        /\ UNCHANGED <<results, clock, last, call, sessions>>

DeletePredictions ==
    \E req \in ScoreDeletions :
        /\ predictions' = delete_prediction(req).predictions
        /\ UNCHANGED <<results, clock, last, call, sessions>>

RecordResult ==
    /\ Cardinality(results) < MaxResults
    /\ \E req \in ScoreResults :
        /\ results' = add_result(req).results
        /\ UNCHANGED <<predictions, clock, last, call, sessions>>

NextScore == SubmitPrediction \/ DeletePredictions \/ RecordResult

SpecScore == Init /\ [][NextScore]_vars

\* ------------------------------------------- calc_distance as a state machine
InitDist ==
    /\ predicted_drivers \in SeqsUpTo(Names, MaxLen)
    /\ point_scorers \in SeqsUpTo(Names, MaxLen)
    /\ distance = None
    /\ pc = "call"
    /\ predictions = {}
    /\ results = {}
    /\ clock = 0
    /\ last = NoRequest
    /\ sessions = [t \in Threads |-> Idle]

CalcDistance ==
    /\ pc = "call"
    /\ distance' = calc_distance(predicted_drivers, point_scorers)
    /\ pc' = "done"
    /\ UNCHANGED <<predicted_drivers, point_scorers, store, clock, last, sessions>>

NextDist == CalcDistance

SpecDist == InitDist /\ [][NextDist]_vars
\* ---------------------------------------------------- claims on calc_distance
Range(list) == {list[i] : i \in 1..Len(list)}

Distinct(list) == Cardinality(Range(list)) = Len(list)

Reverse(list) == [i \in 1..Len(list) |-> list[Len(list) + 1 - i]]

RECURSIVE SumOver(_, _)
SumOver(f, n) == IF n = 0 THEN 0 ELSE f[n] + SumOver(f, n - 1)

\* 0-based first position of name among the first n entries of list, n if absent
FirstPos(list, name, n) ==
    LET hits == {j \in 1..Len(list) : j <= n /\ list[j] = name}
    IN  IF hits = {} THEN n
        ELSE (CHOOSE j \in hits : \A i \in hits : j <= i) - 1

\* total absolute rank displacement of predicted against actual
TotalDisplacement(predicted, actual) ==
    LET n == Len(actual)
    IN  SumOver([i \in 1..n |-> abs((i - 1) - FirstPos(predicted, actual[i], n))], n)

\* sum over k = 0..n-1 of max(k, n - k), in closed form
WorstCase(n) == (3 * n * n + (n % 2)) \div 4

\* sum over k = 0..n-1 of max(k, n - 1 - k), in closed form
WorstCasePresent(n) == (3 * n * n - 2 * n - (n % 2)) \div 4

Done == pc = "done"

\* C1 (as stated): for actual of length n >= 2 the distance is the total
\* displacement over the sum of max(k, n-1-k); actual [A,B,C], predicted
\* [B,A,C] gives displacement 2, normalizer 5.
C1_NormalizerPresent ==
    (Done /\ Len(point_scorers) >= 2) =>
        /\ distance.defined
        /\ distance.num = TotalDisplacement(predicted_drivers, point_scorers)
        /\ distance.den = WorstCasePresent(Len(point_scorers))
        /\ (point_scorers = <<"A", "B", "C">> /\ predicted_drivers = <<"B", "A", "C">>)
               => (distance.num = 2 /\ distance.den = 5)

\* C1 (amended): for actual of length n >= 2 the distance is the total
\* displacement over the sum of max(k, n-k); actual [A,B,C], predicted
\* [B,A,C] gives displacement 2, normalizer 7, distance 2/7.
C1_Normalizer ==
    (Done /\ Len(point_scorers) >= 2) =>
        /\ distance.defined
        /\ distance.num = TotalDisplacement(predicted_drivers, point_scorers)
        /\ distance.den = WorstCase(Len(point_scorers))
        /\ (point_scorers = <<"A", "B", "C">> /\ predicted_drivers = <<"B", "A", "C">>)
               => (distance.num = 2 /\ distance.den = 7)

C1_Witness ==
    /\ Done
    /\ point_scorers = <<"A", "B", "C">>
    /\ predicted_drivers = <<"B", "A", "C">>
    /\ distance = Float(2, 7)

\* C2: for every predicted list and every non-empty actual list the returned
\* value lies in [0, 1]: 0 <= total displacement <= normalizer.
C2_UnitInterval ==
    (Done /\ point_scorers # <<>>) =>
        /\ distance.defined
        /\ distance.den > 0
        /\ 0 <= distance.num
        /\ distance.num <= distance.den

\* predicted shorter than actual and disjoint from it
C2_Witness ==
    /\ Done
    /\ point_scorers = <<"A", "B", "C">>
    /\ predicted_drivers = <<"D">>
    /\ distance = Float(6, 7)

\* C3 (as stated): for every actual of length n >= 2,
\* calc_distance(actual, actual) is 0.
C3_SelfDistanceAny ==
    (Done /\ Len(point_scorers) >= 2 /\ predicted_drivers = point_scorers) =>
        (distance.defined /\ distance.num = 0)

\* C3 (amended): for every actual of length n >= 2 whose identifiers are
\* pairwise distinct, calc_distance(actual, actual) is 0.
C3_SelfDistance ==
    (Done /\ Len(point_scorers) >= 2 /\ Distinct(point_scorers)
          /\ predicted_drivers = point_scorers) =>
        (distance.defined /\ distance.num = 0)

C3_Witness ==
    /\ Done
    /\ point_scorers = <<"C", "A", "B">>
    /\ predicted_drivers = point_scorers
    /\ distance = Float(0, 7)

\* C4 (as stated): for actual of n >= 2 distinct names the fully reversed
\* prediction has distance exactly 1: its displacement equals the normalizer.
C4_ReverseIsOne ==
    (Done /\ Len(point_scorers) >= 2 /\ Distinct(point_scorers)
          /\ predicted_drivers = Reverse(point_scorers)) =>
        (distance.defined /\ distance.num = distance.den)

\* C4 (amended): for actual of n >= 2 distinct names the fully reversed
\* prediction has total displacement floor(n*n/2), strictly below the
\* normalizer: the distance is strictly between 0 and 1.
C4_ReverseBelowOne ==
    (Done /\ Len(point_scorers) >= 2 /\ Distinct(point_scorers)
          /\ predicted_drivers = Reverse(point_scorers)) =>
        /\ distance.defined
        /\ distance.num = (Len(point_scorers) * Len(point_scorers)) \div 2
        /\ 0 < distance.num
        /\ distance.num < distance.den

C4_Witness ==
    /\ Done
    /\ point_scorers = <<"A", "B", "C">>
    /\ predicted_drivers = <<"C", "B", "A">>
    /\ distance = Float(4, 7)

\* C5: when actual has exactly one name the normalizer is not zero, and the
\* result is 0 if the first predicted name is that name and 1 otherwise.
C5_SingleScorer ==
    (Done /\ Len(point_scorers) = 1) =>
        /\ distance.defined
        /\ distance.den # 0
        /\ IF predicted_drivers # <<>> /\ predicted_drivers[1] = point_scorers[1]
           THEN distance.num = 0
           ELSE distance.num = distance.den

C5_Witness ==
    /\ Done
    /\ point_scorers = <<"A">>
    /\ predicted_drivers = <<>>
    /\ distance = Float(1, 1)

\* ------------------------------------------------- claims on the score queries
eq(a, b) == a.defined = b.defined /\ (a.defined => a.num * b.den = b.num * a.den)

HasPrediction(username, race) ==
    \E p \in predictions : p.user = username /\ p.race = race

HasResult(race) == \E r \in results : r.race = race

HasPointScorer(race) == \E r \in results : r.race = race /\ r.points > 0

NrPointScorers(race) == Cardinality({r \in results : r.race = race /\ r.points > 0})

\* the sum of the defined per-race scores of the races in R, None if there is none
RECURSIVE Total(_, _, _)
Total(username, R, tie) ==
    IF R = {} THEN None
    ELSE LET race == CHOOSE r \in R : TRUE
             score == calc_score(username, race, tie)
             rest == Total(username, R \ {race}, tie)
         IN  IF ~score.defined THEN rest
             ELSE IF ~rest.defined THEN score
             ELSE add(score, rest)

\* C6 (as stated): a user without prediction rows for an event, or an event
\* without results, has no score for it, and the event adds nothing to the
\* user's total.
C6_NoDataNoScore ==
    \A u \in Users, r \in Races, tie \in TieBreaks :
        (~HasPrediction(u, r) \/ ~HasResult(r)) =>
            /\ calc_score(u, r, tie) = None
            /\ eq(calc_total_score(u, tie), Total(u, Races \ {r}, tie))

\* C6 (amended): an event without a result of points > 0 has no score and adds
\* nothing to the total; for an event with n point scorers a user without
\* prediction rows is scored n(n+1)/2 over the normalizer, and that number is
\* part of the user's total.
C6_NoResultNoScore ==
    \A u \in Users, r \in Races, tie \in TieBreaks :
        /\ ~HasPointScorer(r) =>
                /\ calc_score(u, r, tie) = None
                /\ eq(calc_total_score(u, tie), Total(u, Races \ {r}, tie))
        /\ (HasPointScorer(r) /\ ~HasPrediction(u, r)) =>
                LET n == NrPointScorers(r)
                    score == Float((n * (n + 1)) \div 2, WorstCase(n))
                    others == Total(u, Races \ {r}, tie)
                IN  /\ eq(calc_score(u, r, tie), score)
                    /\ eq(calc_total_score(u, tie),
                          IF others.defined THEN add(score, others) ELSE score)

\* u1 predicted nothing for r1, which has two point scorers
C6_Witness ==
    /\ ~HasPrediction("u1", "r1")
    /\ HasPrediction("u2", "r1")
    /\ NrPointScorers("r1") = 2
    /\ \A tie \in TieBreaks : calc_score("u1", "r1", tie) = Float(3, 3)

\* C7: calc_distance(predicted, []) is None for every predicted list, and
\* calc_score is None when the race is unknown or has no result row with
\* points > 0, whatever the user predicted.
C7_Undefined ==
    /\ \A p \in SeqsUpTo(DriverNames, 2) : calc_distance(p, <<>>) = None
    /\ \A u \in UserNames, tie \in TieBreaks :
        /\ \A r \in RaceNames \ Races : calc_score(u, r, tie) = None
        /\ \A r \in Races : ~HasPointScorer(r) => calc_score(u, r, tie) = None

\* r1 has a result, none with points, and u1 predicted it
C7_Witness ==
    /\ HasResult("r1")
    /\ ~HasPointScorer("r1")
    /\ HasPrediction("u1", "r1")
    /\ \A tie \in TieBreaks : calc_score("u1", "r1", tie) = None

\* C8: calc_total_score is the sum of calc_score over exactly the known races
\* whose score is defined, and None (not 0.0) when no race has one.
C8_TotalScore ==
    \A u \in UserNames, tie \in TieBreaks :
        LET scored == {r \in Races : calc_score(u, r, tie).defined}
            total == calc_total_score(u, tie)
        IN  /\ total.defined <=> scored # {}
            /\ scored = {} => total = None
            /\ eq(total, Total(u, scored, tie))

\* u1 has a non-zero score in both races
C8_Witness ==
    \E tie \in TieBreaks :
        /\ HasPrediction("u1", "r1")
        /\ calc_score("u1", "r1", tie).defined
        /\ calc_score("u1", "r2", tie).defined
        /\ calc_score("u1", "r1", tie).num > 0
        /\ calc_score("u1", "r2", tie).num > 0
        /\ eq(calc_total_score("u1", tie),
              add(calc_score("u1", "r1", tie), calc_score("u1", "r2", tie)))

\* C9: get_standings has exactly one entry for each known user whose total
\* score is defined, none for any other user, and is in non-decreasing order
\* of total score.
C9_Standings ==
    \A users \in UserOrders, tie \in TieBreaks :
        LET standings == get_standings(users, tie)
            entries(u) == {i \in 1..Len(standings) : standings[i].username = u}
        IN  /\ \A i \in 1..Len(standings) :
                /\ standings[i].username \in Users
                /\ standings[i].score.defined
                /\ eq(standings[i].score, calc_total_score(standings[i].username, tie))
            /\ \A u \in Users :
                Cardinality(entries(u)) =
                    (IF calc_total_score(u, tie).defined THEN 1 ELSE 0)
            /\ \A i, j \in 1..Len(standings) :
                i < j => leq(standings[i].score, standings[j].score)

\* the user returned last by the database has the strictly lower total
C9_Witness ==
    \E users \in UserOrders, tie \in TieBreaks :
        LET standings == get_standings(users, tie)
        IN  /\ Len(standings) = 2
            /\ standings[1].username = users[2]
            /\ ~leq(standings[2].score, standings[1].score)

\* ------------------------------------------------------ claims on the ledger
\* C10: a submission by a known, authenticated user for a known event fails
\* the deadline check if and only if its UTC date is later than the event's
\* date minus 2 days, and a submission so rejected writes no row.
C10_Deadline ==
    [][(/\ last'.op = "make_prediction"
        /\ last'.reason \notin {"validation", "user", "auth", "race"}) =>
           /\ last'.race \in Races
           /\ (last'.reason = "deadline") <=> (date(clock') > RaceDate[last'.race] - 2)
           /\ (last'.reason = "deadline") => (predictions' = predictions)]_vars

\* r1 is held on day 2: a submission in the first half of day 1 is rejected
C10_Witness ==
    /\ last = Response("make_prediction", "r1", "FAILURE", "deadline")
    /\ clock = 2
    /\ date(clock) = prediction_deadline("r1") + 1
    /\ HasPrediction("u1", "r1")

\* ------------------------------------------- claims on concurrent requests
\* the rows of one submission: one per name, ranked from 1
RowsOfList(username, race, drivers) ==
    {[user |-> username, race |-> race, driver |-> drivers[i], position |-> i] :
        i \in 1..Len(drivers)}

RowsOf(username, race) == {p \in predictions : p.user = username /\ p.race = race}

\* the step on which thread t answers a make_prediction request
Answers(t, op) ==
    /\ sessions[t].phase # "done"
    /\ sessions'[t].phase = "done"
    /\ sessions'[t].op = op

\* a submission that has to fail: unknown user, event or participant, a
\* repeated name, the deadline passed, or a row of the same user, event and
\* participant already stored
MustFail(req) ==
    \/ req.username \notin Users
    \/ req.race_name \notin Races
    \/ \E i \in 1..Len(req.drivers) : req.drivers[i] \notin Drivers
    \/ \E i, j \in 1..Len(req.drivers) : i # j /\ req.drivers[i] = req.drivers[j]
    \/ date(clock) > RaceDate[req.race_name] - 2
    \/ \E p \in RowsOf(req.username, req.race_name), i \in 1..Len(req.drivers) :
           p.driver = req.drivers[i]

\* C11: every make_prediction call either succeeds and adds exactly one row per
\* submitted name, ranked by its position in the list, or fails and leaves the
\* prediction rows unchanged; the rows never change in any other way than by
\* one whole submission or one deletion, whatever the other threads do.
C11_AllOrNothing ==
    [][/\ \A t \in Threads :
            Answers(t, "make_prediction") =>
                LET req == sessions'[t].req
                    rows == RowsOfList(req.username, req.race_name, req.drivers)
                IN  /\ sessions'[t].status \in {"SUCCESS", "FAILURE"}
                    /\ MustFail(req) => sessions'[t].status = "FAILURE"
                    /\ sessions'[t].status = "FAILURE" => predictions' = predictions
                    /\ sessions'[t].status = "SUCCESS" =>
                          /\ predictions' = predictions \cup rows
                          /\ Cardinality(predictions') =
                                 Cardinality(predictions) + Len(req.drivers)
       /\ predictions' # predictions =>
            \E t \in Threads :
                /\ sessions[t].phase = "pending"
                /\ sessions'[t].status = "SUCCESS"
                /\ \/ Answers(t, "make_prediction")
                   \/ Answers(t, "delete_prediction")]_vars

\* thread t1 is refused [A, B] for (u1, r1) because t2 committed [B] for
\* (u1, r1) in between: B is stored, A is not
C11_Witness ==
    /\ sessions["t1"].phase = "done"
    /\ sessions["t1"].op = "make_prediction"
    /\ sessions["t1"].req.username = "u1"
    /\ sessions["t1"].req.race_name = "r1"
    /\ sessions["t1"].req.drivers = <<"A", "B">>
    /\ sessions["t1"].reason = "integrity"
    /\ sessions["t2"].phase = "done"
    /\ sessions["t2"].status = "SUCCESS"
    /\ RowsOf("u1", "r1") = RowsOfList("u1", "r1", <<"B">>)

\* C12: after any sequence of make_prediction and delete_prediction calls, the
\* rows stored for each (user, event) pair are those of a single successful
\* submission: their ranks are exactly 1..N, no rank repeated and no name
\* repeated.
C12_SingleSubmission ==
    \A username \in Users, race \in Races :
        LET rows == RowsOf(username, race)
        IN  /\ \A p \in rows : p.position \in 1..Cardinality(rows)
            /\ \A p, q \in rows :
                   p # q => p.position # q.position /\ p.driver # q.driver

\* the rows that do not belong to (username, race)
RowsNotOf(rows, username, race) ==
    {p \in rows : p.user # username \/ p.race # race}

\* C13: delete_prediction(user, event) leaves no prediction row of that user
\* for that event and leaves the rows of other users and of other events
\* unchanged; with no row to delete it succeeds and changes nothing, so a second
\* call has no further effect.
C13_Delete ==
    [][\A t \in Threads :
          (Answers(t, "delete_prediction") /\ sessions[t].phase = "pending") =>
              LET req == sessions'[t].req
              IN  /\ sessions'[t].status = "SUCCESS"
                  /\ {p \in predictions' :
                         p.user = req.username /\ p.race = req.race_name} = {}
                  /\ RowsNotOf(predictions', req.username, req.race_name) =
                         RowsNotOf(predictions, req.username, req.race_name)
                  /\ RowsOf(req.username, req.race_name) = {} =>
                         predictions' = predictions
                  /\ delete_rows(predictions', req.username, req.race_name) =
                         predictions']_vars

\* t2 has stored a prediction of u1 for r1 and t1 has deleted it since, while
\* the rows of u2 for r1 are still there
C13_Witness ==
    /\ sessions["t2"].phase = "done"
    /\ sessions["t2"].op = "make_prediction"
    /\ sessions["t2"].status = "SUCCESS"
    /\ sessions["t2"].req.username = "u1"
    /\ sessions["t2"].req.race_name = "r1"
    /\ sessions["t1"].phase = "done"
    /\ sessions["t1"].op = "delete_prediction"
    /\ sessions["t1"].status = "SUCCESS"
    /\ sessions["t1"].req.username = "u1"
    /\ sessions["t1"].req.race_name = "r1"
    /\ RowsOf("u1", "r1") = {}
    /\ RowsOf("u2", "r1") # {}

\* the request names a known user and carries that user's password
Verified(req) ==
    /\ req.username \in Users
    /\ req.password = Password[req.username]

RowsOfUser(rows, username) == {p \in rows : p.user = username}

\* C14: a submit or delete request whose user is unknown or whose password does
\* not verify is answered with a failure and neither adds nor removes a
\* prediction row; the rows of a user are added and removed only by requests
\* that carried that user's password.
C14_Authenticated ==
    [][/\ \A t \in Threads :
            /\ sessions'[t].phase = "pending" => Verified(sessions'[t].req)
            /\ (/\ \/ Answers(t, "make_prediction")
                   \/ Answers(t, "delete_prediction")
                /\ ~Verified(sessions'[t].req)) =>
                  /\ sessions'[t].status = "FAILURE"
                  /\ predictions' = predictions
       /\ \A username \in Users :
            RowsOfUser(predictions', username) # RowsOfUser(predictions, username) =>
                \E t \in Threads :
                    /\ sessions[t].phase = "pending"
                    /\ sessions'[t].phase = "done"
                    /\ sessions'[t].req.username = username
                    /\ Verified(sessions'[t].req)]_vars

\* u1's rows for r1 are stored; a submission and a deletion in u1's name with
\* u2's password have both been refused
C14_Witness ==
    /\ sessions["t1"].phase = "done"
    /\ sessions["t1"].op = "make_prediction"
    /\ sessions["t1"].req.username = "u1"
    /\ sessions["t1"].req.password = Password["u2"]
    /\ sessions["t1"].reason = "auth"
    /\ sessions["t2"].phase = "done"
    /\ sessions["t2"].op = "delete_prediction"
    /\ sessions["t2"].req.username = "u1"
    /\ sessions["t2"].req.password = Password["u2"]
    /\ sessions["t2"].req.race_name = "r1"
    /\ sessions["t2"].status = "FAILURE"
    /\ RowsOf("u1", "r1") # {}

\* ------------------------------------------------------ claims on results
\* a request add_result has to refuse: unknown event, participant or
\* constructor, or the (participant, position) pair is taken for the event
MustRefuse(req) ==
    \/ req.race_name \notin Races
    \/ req.driver \notin Drivers
    \/ req.constructor \notin Constructors
    \/ \E r \in results :
           /\ r.race = req.race_name
           /\ r.driver = req.driver
           /\ r.position = req.position

Extensions(list, n) ==
    {SubSeq(list, 1, n) \o ext :
        ext \in {<<>>} \cup {<<a>> : a \in Names} \cup {<<a, b>> : a, b \in Names}}

\* C16: for a non-empty actual list of length n and predicted lists p and q
\* that agree on their first n entries, calc_distance(p, actual) equals
\* calc_distance(q, actual): the entries beyond position n do not count.
C16_BeyondN ==
    (Done /\ point_scorers # <<>> /\ Len(predicted_drivers) >= Len(point_scorers)) =>
        \A q \in Extensions(predicted_drivers, Len(point_scorers)) :
            calc_distance(q, point_scorers) = distance

\* the only scorer A is predicted second and third, beyond position 1
C16_Witness ==
    /\ Done
    /\ point_scorers = <<"A">>
    /\ predicted_drivers = <<"B", "A", "A">>
    /\ distance = Float(1, 1)

\* C17: after any sequence of add_result calls, the finishing order used for
\* scoring an event (the names of its rows with points > 0, ordered by
\* position) holds each participant at most once.
C17_ScorersOnce ==
    \A race \in Races, tie \in TieBreaks :
        Distinct(retrieve_point_scorers(race, tie))
====
